---- MODULE Spec2Model ----
(***************************************************************************)
(* FootIn agent: the ReAct control loop (footin_agent.run_agent and        *)
(* modal_app.run_agent_endpoint), its tools, the state merger              *)
(* (update_state_from_tools / update_state), the batch scraper             *)
(* (CareersPageScraper.search_multiple), the contact search                *)
(* (hunter_search) and the enrichment batch (CompanyNewsSearcher).         *)
(*                                                                         *)
(* JSON values are tagged records [t, v]:                                  *)
(*   t = "str"  : v is a string                                            *)
(*   t = "list" : v is a sequence of JSON values                           *)
(*   t = "dict" : v is a function from keys (strings) to JSON values       *)
(*   t = "null" : Python None                                              *)
(* A tool message whose text is not JSON has t = "notjson".                *)
(***************************************************************************)
EXTENDS Integers, Sequences, FiniteSets, TLC

VARIABLES
    entry,       \* which entry point of the repository is running
    env,         \* os.environ: the set of credential names that are set
    pc,          \* node of the LangGraph about to run, or "end" / "failed"
    steps,       \* number of planner decisions that requested tools so far
    toolCalls,   \* tool_calls of the last AIMessage
    toolMsgs,    \* the ToolMessages [name, content] the tools node appended last
    messages,    \* AgentState.messages: [type, names, text] of every message so far
    jobs,        \* AgentState.jobs
    contacts,    \* AgentState.contacts
    enrichment,  \* AgentState.enrichment
    drafts,      \* AgentState.drafts
    hashSalt,    \* the process's str-hash salt (PYTHONHASHSEED)
    tasks,       \* the target of each session-holding coroutine, in creation order
    taskState,   \* search_multiple: "created", "open" (its session is open) or "done", per task
    results,     \* search_multiple: what gather recorded for each finished task
    batchStart,  \* search_multiple: the loop variable i (0-based index of the batch's first task)
    all_jobs,    \* search_multiple: all_jobs
    printed,     \* search_multiple: the tasks whose failure the loop printed
    opened,      \* per task: how many times sessions.start() returned a session
    ended,       \* per task: how many times session.end() was called
    returned,    \* the value the entry point returned, once it has
    input        \* the arguments of search_multiple / search_multiple_companies

loopVars  == <<steps, toolCalls, toolMsgs, messages, jobs, contacts, enrichment, drafts>>
batchVars == <<tasks, taskState, results, batchStart, all_jobs, printed, opened, ended>>
vars == <<entry, env, pc, hashSalt, input, returned, loopVars, batchVars>>

-----------------------------------------------------------------------------
(* JSON values *)

S(s) == [t |-> "str", v |-> s]
L(q) == [t |-> "list", v |-> q]
D(f) == [t |-> "dict", v |-> f]
Null == [t |-> "null", v |-> "None"]
NotJson == [t |-> "notjson", v |-> "Error"]

EmptyDict == <<>>

(* Python's `m in s` for two strings, on the strings this model uses. *)
Contains(s, m) ==
    \/ s = m
    \/ <<s, m>> \in { <<"referenced_news", "news">>,
                      <<"short_email", "email">>,
                      <<"mentioned_role", "role">> }

(* `m in str(x)`: the marker occurs in a key or in a string of the value. *)
RECURSIVE StrHas(_, _)
StrHas(x, m) ==
    CASE x.t = "str"  -> Contains(x.v, m)
      [] x.t = "list" -> \E i \in 1..Len(x.v) : StrHas(x.v[i], m)
      [] x.t = "dict" -> \E k \in DOMAIN x.v : Contains(k, m) \/ StrHas(x.v[k], m)
      [] OTHER        -> FALSE

(* dict.update(new) *)
DictUpdate(old, new) ==
    [k \in (DOMAIN old) \cup (DOMAIN new) |-> IF k \in DOMAIN new THEN new[k] ELSE old[k]]

Take(q, n) == IF Len(q) <= n THEN q ELSE SubSeq(q, 1, n)

RECURSIVE Concat(_)
Concat(qs) == IF qs = <<>> THEN <<>> ELSE Head(qs) \o Concat(Tail(qs))

-----------------------------------------------------------------------------
(* State merger *)

RunState == [jobs |-> jobs, contacts |-> contacts, enrichment |-> enrichment, drafts |-> drafts]

(* The jobs test looking for apply_url in the first element instead of role. *)
IsJobsResult_ApplyUrl(content) ==
    content.t = "list" /\ Len(content.v) > 0 /\ content.v[1].t = "dict" /\ "apply_url" \in DOMAIN content.v[1].v

(* `"role" in content[0]` *)
RoleIn(x) ==
    CASE x.t = "dict" -> "role" \in DOMAIN x.v
      [] x.t = "str"  -> Contains(x.v, "role")
      [] x.t = "list" -> \E i \in 1..Len(x.v) : x.v[i] = S("role")
      [] OTHER        -> FALSE

IsJobsResult(content) ==
    content.t = "list" /\ Len(content.v) > 0 /\ RoleIn(content.v[1])

(* footin_agent.update_state_from_tools: the most recent ToolMessage only. *)
update_state_from_tools(st, msgs) ==
    LET content == msgs[Len(msgs)].content IN
    IF content.t = "notjson" THEN st
    ELSE IF IsJobsResult(content)
        THEN [st EXCEPT !.jobs = st.jobs \o content.v]
    ELSE IF content.t = "dict" THEN
        IF \E k \in DOMAIN content.v :
               content.v[k].t = "list" /\ StrHas(content.v[k], "email")
            THEN [st EXCEPT !.contacts = DictUpdate(st.contacts, content.v)]
        ELSE IF StrHas(content, "news") \/ StrHas(content, "x_profile")
            THEN [st EXCEPT !.enrichment = DictUpdate(st.enrichment, content.v)]
        ELSE IF "subject" \in DOMAIN content.v /\ "body" \in DOMAIN content.v
            THEN [st EXCEPT !.drafts = st.drafts \o <<content>>]
        ELSE st
    ELSE st

(* modal_app.update_state *)
update_state(st, msgs) ==
    LET content == msgs[Len(msgs)].content IN
    IF content.t = "notjson" THEN st
    ELSE IF IsJobsResult(content)
        THEN [st EXCEPT !.jobs = st.jobs \o content.v]
    ELSE IF content.t = "dict" THEN
        IF "subject" \in DOMAIN content.v /\ "body" \in DOMAIN content.v
            THEN [st EXCEPT !.drafts = st.drafts \o <<content>>]
        ELSE IF \E k \in DOMAIN content.v : content.v[k].t = "list"
            THEN [st EXCEPT !.contacts = DictUpdate(st.contacts, content.v)]
        ELSE st
    ELSE st

-----------------------------------------------------------------------------
(* Shared helpers of the tools *)

(* The elements of q at the indices in I, in order. *)
RECURSIVE SeqOfIdx(_, _, _)
SeqOfIdx(q, I, i) ==
    IF i > Len(q) THEN <<>>
    ELSE (IF i \in I THEN <<q[i]>> ELSE <<>>) \o SeqOfIdx(q, I, i + 1)

(* `[x for x in q if not (K(x) in seen or seen.add(K(x)))]` *)
FirstByKey(q, k) ==
    SeqOfIdx(q, {i \in 1..Len(q) : \A j \in 1..(i - 1) : q[j].v[k] # q[i].v[k]}, 1)

Truthy(x) == ~(x.t = "null" \/ x = S(""))

Lower(s) ==
    CASE s = "Acme" -> "acme" [] s = "Globex" -> "globex" [] s = "Initech" -> "initech"
      [] OTHER -> s

ErrorResult(msg) == D([error |-> S(msg)])

(* str(hash(s))[:9]: Python salts str hashes per process, so equal strings   *)
(* get equal ids within one process and other ids in another process.      *)
(* Both salts here keep the model's strings apart after the truncation.    *)
HashSalts == {1, 2}
Hash9(s, salt) ==
    CASE salt = 1 -> (CASE s = "u1" -> "h11" [] s = "u2" -> "h12" [] s = "t1" -> "h13" [] OTHER -> "h14")
      [] OTHER    -> (CASE s = "u1" -> "h21" [] s = "u2" -> "h22" [] s = "t1" -> "h23" [] OTHER -> "h24")

-----------------------------------------------------------------------------
(* footin_agent.discover_jobs (Apify) *)

ApifyItems ==
    [ a1 |-> [jobId |-> "j1", companyName |-> "Acme",   title |-> "t1", jobUrl |-> "u1"],
      a2 |-> [jobId |-> "j2", companyName |-> "Acme",   title |-> "t2", jobUrl |-> "u2"],
      a3 |-> [jobId |-> "j1", companyName |-> "Globex", title |-> "t1", jobUrl |-> "u3"] ]

(* What one actor run can give: an exception, or the dataset's items. *)
ApifyReplies ==
    { [raised |-> TRUE,  items |-> <<>>],
      [raised |-> FALSE, items |-> <<>>],
      [raised |-> FALSE, items |-> <<ApifyItems.a1>>],
      [raised |-> FALSE, items |-> <<ApifyItems.a2, ApifyItems.a1>>],
      [raised |-> FALSE, items |-> <<ApifyItems.a3, ApifyItems.a2>>] }

ApifyJob(item, company, role, salt) ==
    D([ id      |-> S(IF "jobId" \in DOMAIN item THEN item.jobId ELSE Hash9(item.title, salt)),
        company |-> S(IF "companyName" \in DOMAIN item THEN item.companyName ELSE company),
        role    |-> S(IF "title" \in DOMAIN item THEN item.title ELSE role),
        url     |-> IF "jobUrl" \in DOMAIN item THEN S(item.jobUrl) ELSE Null ])

JobId(j) == j.v.id

(* The (company, role) queries of `for company in companies[:3]: for role in roles[:2]`. *)
Pairs(cs, rs) ==
    [i \in 1..(Len(cs) * Len(rs)) |->
        [company |-> cs[((i - 1) \div Len(rs)) + 1], role |-> rs[((i - 1) % Len(rs)) + 1]]]

(* The Apify actor calls discover_jobs makes, in order. *)
ApifyQueries(companies, roles) == Pairs(Take(companies, 3), Take(roles, 2))

discover_jobs(companies, roles, max_results, e, salt, apify) ==
    IF "APIFY_API_TOKEN" \notin e THEN ErrorResult("APIFY_API_TOKEN not configured")
    ELSE
      LET qs       == ApifyQueries(companies, roles)
          perQuery == [i \in 1..Len(qs) |->
                         IF apify[i].raised THEN <<>>
                         ELSE [n \in 1..Len(apify[i].items) |->
                                 ApifyJob(apify[i].items[n], qs[i].company, qs[i].role, salt)]]
          listed == Concat(perQuery)
          keep     == {i \in 1..Len(listed) :
                          \E r \in 1..Len(companies) :
                              Contains(Lower(listed[i].v.company.v), Lower(companies[r]))}
          filtered == SeqOfIdx(listed, keep, 1)
          unique   == FirstByKey(filtered, "id")
      IN  L(Take(unique, max_results))

-----------------------------------------------------------------------------
(* footin_agent.find_contacts and modal_app.find_contacts_tool (Hunter) *)

Seniorities == <<"executive", "senior">>
DefaultDepartments == <<"it", "management">>

(* What one domain-search request can give: an exception, or the emails. *)
HunterReplies ==
    { [raised |-> TRUE,  emails |-> <<>>],
      [raised |-> FALSE, emails |-> <<S("e1"), S("e2")>>],
      [raised |-> FALSE, emails |-> <<S("e2"), Null, S("e3"), S("e4")>>] }

ContactEmail(c) == c.v.email

(* The same search without the final cut to three contacts. *)
ContactsOfCompany_Uncut(company, depts, reply) ==
    LET qs       == Pairs(Seniorities, depts)
        perQuery == [i \in 1..Len(qs) |->
                       IF reply[i].raised THEN <<>>
                       ELSE [n \in 1..Len(reply[i].emails) |->
                               D([email |-> reply[i].emails[n], company |-> S(company)])]]
        found    == Concat(perQuery)
        named    == SeqOfIdx(found, {i \in 1..Len(found) : Truthy(found[i].v.email)}, 1)
        unique   == FirstByKey(named, "email")
    IN  L(unique)

(* The list stored under one company: the replies of the seniority x      *)
(* department requests in order, without falsy emails, first per email,    *)
(* at most 3.                                                              *)
ContactsOfCompany(company, depts, reply) ==
    LET qs       == Pairs(Seniorities, depts)
        perQuery == [i \in 1..Len(qs) |->
                       IF reply[i].raised THEN <<>>
                       ELSE [n \in 1..Len(reply[i].emails) |->
                               D([email |-> reply[i].emails[n], company |-> S(company)])]]
        found    == Concat(perQuery)
        named    == SeqOfIdx(found, {i \in 1..Len(found) : Truthy(found[i].v.email)}, 1)
        unique   == FirstByKey(named, "email")
    IN  L(Take(unique, 3))

(* hunter[c] is the sequence of replies to company c's requests. *)
find_contacts(companies, departments, e, hunter) ==
    IF "HUNTER_API_KEY" \notin e THEN ErrorResult("HUNTER_API_KEY not configured")
    ELSE
      LET cs    == Take(companies, 3)
          depts == Take(IF departments = <<>> THEN DefaultDepartments ELSE departments, 2)
      IN  D([c \in {cs[i] : i \in 1..Len(cs)} |-> ContactsOfCompany(c, depts, hunter[c])])

find_contacts_tool(companies, e, hunter) ==
    IF "HUNTER_API_KEY" \notin e THEN ErrorResult("HUNTER_API_KEY not configured")
    ELSE
      LET cs == Take(companies, 3)
      IN  D([c \in {cs[i] : i \in 1..Len(cs)} |->
                ContactsOfCompany(c, DefaultDepartments, hunter[c])])

-----------------------------------------------------------------------------
(* footin_agent.enrich_company *)

Guidance ==
    D([ news      |-> L(<<D([title |-> S("search_hint"), source |-> S("manual"), date |-> S("now")])>>),
        x_profile |-> D([suggestion |-> S("search_hint")]),
        note      |-> S("BROWSERBASE_API_KEY not configured") ])

NotIntegrated ==
    D([ news |-> L(<<>>), x_profile |-> Null, note |-> S("not yet integrated") ])

enrich_company(companies, e) ==
    LET cs == Take(companies, 3)
    IN  D([c \in {cs[i] : i \in 1..Len(cs)} |->
              IF "BROWSERBASE_API_KEY" \notin e THEN Guidance ELSE NotIntegrated])

-----------------------------------------------------------------------------
(* footin_agent.draft_email and modal_app.draft_email_tool *)

(* What the drafting model can answer: an exception, or a JSON object. *)
DraftReplies ==
    { [raised |-> TRUE,  json |-> EmptyDict],
      [raised |-> FALSE, json |-> [subject |-> S("s1"), body |-> S("b1"),
                                   tactics |-> L(<<S("mentioned_role")>>)]],
      [raised |-> FALSE, json |-> [subject |-> S("s1"), body |-> S("b1"),
                                   tactics |-> L(<<S("mentioned_role"), S("referenced_news")>>)]],
      [raised |-> FALSE, json |-> [subject |-> S("s1"), body |-> S("b1"),
                                   tactics |-> L(<<S("short_email"), S("mentioned_role"),
                                                   S("specific_question"), S("brief")>>)]] }

DraftResult(reply, contact_name, contact_email) ==
    IF reply.raised THEN ErrorResult("api_error")
    ELSE D(DictUpdate(reply.json, [to |-> S(contact_email), contact_name |-> S(contact_name)]))

draft_email(contact_name, contact_email, e, reply) ==
    IF "OPENAI_API_KEY" \notin e THEN ErrorResult("OPENAI_API_KEY not configured")
    ELSE DraftResult(reply, contact_name, contact_email)

GeminiKeys == {"GOOGLE_API_KEY", "GEMINI_API_KEY", "MODEL_API_KEY"}

draft_email_tool(contact_name, contact_email, e, reply) ==
    IF e \cap GeminiKeys = {} THEN ErrorResult("GOOGLE_API_KEY, GEMINI_API_KEY, or MODEL_API_KEY not configured")
    ELSE DraftResult(reply, contact_name, contact_email)

-----------------------------------------------------------------------------
(* browserbase_jobs.CareersPageScraper *)

RawJobs ==
    [ x1 |-> [title |-> "t1", apply_url |-> "u1"],
      x2 |-> [title |-> "t2", apply_url |-> "u2"],
      x3 |-> [title |-> "t1"] ]

(* What one search_company_jobs session can meet. *)
ScrapeOutcomes ==
    { [kind |-> "start_raises", raw |-> <<>>],       \* sessions.start raises
      [kind |-> "end_raises", raw |-> <<>>],         \* session.end raises in the finally
      [kind |-> "scrape_raises", raw |-> <<>>],      \* an exception inside the try
      [kind |-> "no_careers_page", raw |-> <<>>],    \* early return []
      [kind |-> "extracted", raw |-> <<>>],
      [kind |-> "extracted", raw |-> <<RawJobs.x1>>],
      [kind |-> "extracted", raw |-> <<RawJobs.x2, RawJobs.x1>>],
      [kind |-> "extracted", raw |-> <<RawJobs.x3>>] }

CareersUrl(company) ==
    CASE company = "Acme" -> "c_acme" [] company = "Globex" -> "c_globex" [] OTHER -> "c_other"

(* `role_lower in title or any(word in title for word in role_words)` *)
TitleMatches(title, role) == <<title, role>> \in { <<"t1", "r1">>, <<"t2", "r2">> }

FormatJob(job, company, role, salt) ==
    LET apply_url == IF "apply_url" \in DOMAIN job THEN job.apply_url ELSE ""
        title     == IF "title" \in DOMAIN job THEN job.title ELSE ""
    IN  D([ id      |-> S(Hash9(IF apply_url # "" THEN apply_url ELSE title, salt)),
            company |-> S(company),
            role    |-> S(IF "title" \in DOMAIN job THEN job.title ELSE role),
            url     |-> S(IF apply_url # "" THEN apply_url ELSE CareersUrl(company)) ])

(* The value search_company_jobs returns when it does not raise. *)
FormattedJobs(company, role, max_results, raw, salt) ==
    LET matching == SeqOfIdx(raw, {i \in 1..Len(raw) :
                        TitleMatches(IF "title" \in DOMAIN raw[i] THEN raw[i].title ELSE "", role)}, 1)
        chosen   == Take(IF matching = <<>> THEN raw ELSE matching, max_results)
    IN  [i \in 1..Len(chosen) |-> FormatJob(chosen[i], company, role, salt)]

(* The outcome asyncio.gather(return_exceptions=True) records for one task. *)
search_company_jobs(company, role, max_results, o, salt) ==
    IF o.kind \in {"start_raises", "end_raises"} THEN [exception |-> TRUE, value |-> <<>>]
    ELSE IF o.kind = "extracted"
        THEN [exception |-> FALSE, value |-> FormattedJobs(company, role, max_results, o.raw, salt)]
    ELSE [exception |-> FALSE, value |-> <<>>]

JobUrl(j) == j.v.url

(* No pass over urls at all. *)
UniqueByUrl_KeepAll(js) == js

(* `if url and url not in seen_urls` *)
UniqueByUrl(js) ==
    FirstByKey(SeqOfIdx(js, {i \in 1..Len(js) : Truthy(js[i].v.url)}, 1), "url")

(* all_jobs after the batches: the list results, in task order. *)
CollectLists(rs) ==
    Concat([i \in 1..Len(rs) |-> IF rs[i].exception THEN <<>> ELSE rs[i].value])

(* search_multiple as a function of its tasks' outcomes. *)
search_multiple(companies, roles, max_results_per_company, outcomes, salt) ==
    LET ts   == Pairs(Take(companies, 5), Take(roles, 3))
        outs == [i \in 1..Len(ts) |->
                      search_company_jobs(ts[i].company, ts[i].role,
                                          max_results_per_company, outcomes[i], salt)]
    IN  UniqueByUrl(CollectLists(outs))

Max(a, b) == IF a >= b THEN a ELSE b

search_jobs(companies, roles, max_results, outcomes, salt) ==
    IF companies = <<>> THEN <<>>
    ELSE Take(search_multiple(companies, roles,
                              Max(1, max_results \div Len(companies)), outcomes, salt),
              max_results)

BrowserbaseKeys == {"BROWSERBASE_API_KEY", "BROWSERBASE_PROJECT_ID", "MODEL_API_KEY"}

(* modal_app.discover_jobs_tool *)
discover_jobs_tool(companies, roles, max_results, e, salt, outcomes) ==
    IF ~(BrowserbaseKeys \subseteq e) THEN ErrorResult("Browserbase credentials not configured")
    ELSE L(search_jobs(Take(companies, 3), Take(roles, 2), max_results, outcomes, salt))

-----------------------------------------------------------------------------
(* The control loop: agent -> tools -> update_state -> agent, or agent -> END *)

FootinKeys == {"APIFY_API_TOKEN", "HUNTER_API_KEY", "BROWSERBASE_API_KEY", "OPENAI_API_KEY"}
ModalKeys  == {"HUNTER_API_KEY"} \cup BrowserbaseKeys

(* Bounds of the model *)
StepCap == 2
CompanyLists == { <<"Acme">>, <<"Globex">> }
RoleLists == { <<"r1">> }

(* The tool calls the planner may request. *)
ToolCallsOf(app) ==
    IF app = "run_agent"
    THEN   { [name |-> "discover_jobs", companies |-> cs, roles |-> rs, max_results |-> 10]
               : cs \in CompanyLists \cup {<<"Acme", "Globex">>}, rs \in RoleLists }
      \cup { [name |-> "find_contacts", companies |-> cs, departments |-> <<>>] : cs \in CompanyLists }
      \cup { [name |-> "enrich_company", companies |-> cs] : cs \in CompanyLists }
      \cup { [name |-> "draft_email", contact_name |-> "n1", contact_email |-> "e1"] }
    ELSE   { [name |-> "discover_jobs_tool", companies |-> cs, roles |-> rs, max_results |-> 10]
               : cs \in CompanyLists \cup {<<"Acme", "Globex">>}, rs \in RoleLists }
      \cup { [name |-> "find_contacts_tool", companies |-> cs] : cs \in CompanyLists }
      \cup { [name |-> "draft_email_tool", contact_name |-> "n1", contact_email |-> "e1"] }

(* The contents a call's ToolMessage can have, over what the providers answer. *)
(* A tool that raises gives ToolNode's error text, which is not JSON.          *)
NumQueries(call) ==
    IF call.name \in {"discover_jobs", "discover_jobs_tool"}
    THEN Len(call.companies) * Len(call.roles)
    ELSE Len(Seniorities) * Len(DefaultDepartments)

ToolResults(call, e, h) ==
    {NotJson} \cup
    CASE call.name = "discover_jobs" ->
           { discover_jobs(call.companies, call.roles, call.max_results, e, h, apify)
               : apify \in [1..NumQueries(call) -> ApifyReplies] }
      [] call.name = "find_contacts" ->
           { find_contacts(call.companies, call.departments, e, hunter)
               : hunter \in [{call.companies[i] : i \in 1..Len(call.companies)}
                               -> [1..NumQueries(call) -> HunterReplies]] }
      [] call.name = "enrich_company" -> { enrich_company(call.companies, e) }
      [] call.name = "draft_email" ->
           { draft_email(call.contact_name, call.contact_email, e, reply) : reply \in DraftReplies }
      [] call.name = "discover_jobs_tool" ->
           { discover_jobs_tool(call.companies, call.roles, call.max_results, e, h, outcomes)
               : outcomes \in [1..NumQueries(call) -> ScrapeOutcomes] }
      [] call.name = "find_contacts_tool" ->
           { find_contacts_tool(call.companies, e, hunter)
               : hunter \in [{call.companies[i] : i \in 1..Len(call.companies)}
                               -> [1..NumQueries(call) -> HunterReplies]] }
      [] call.name = "draft_email_tool" ->
           { draft_email_tool(call.contact_name, call.contact_email, e, reply) : reply \in DraftReplies }

NoValue == [t |-> "none", v |-> "none"]

(* Messages by kind. An AIMessage keeps the names of the tool calls it asks  *)
(* for and whether it has text; a ToolMessage the name of its tool (the    *)
(* content of the latest ones is in toolMsgs). A response that asks for    *)
(* tools is taken to have no text, the final answer may have some.         *)
HumanMsg == [type |-> "human", names |-> <<>>, text |-> TRUE]
AIMsg(calls, text) ==
    [type |-> "ai", names |-> [i \in 1..Len(calls) |-> calls[i].name], text |-> text]
ToolMsg(name) == [type |-> "tool", names |-> <<name>>, text |-> TRUE]

LoopInit ==
    /\ steps = 0
    /\ toolCalls = <<>>
    /\ toolMsgs = <<>>
    /\ messages = <<HumanMsg, HumanMsg>>
    /\ jobs = <<>>
    /\ contacts = EmptyDict
    /\ enrichment = EmptyDict
    /\ drafts = <<>>

BatchInit ==
    /\ tasks = <<>>
    /\ taskState = <<>>
    /\ results = <<>>
    /\ batchStart = 0
    /\ all_jobs = <<>>
    /\ printed = {}
    /\ opened = <<>>
    /\ ended = <<>>

InitAgent ==
    /\ entry \in {"run_agent", "run_agent_endpoint"}
    /\ env \in IF entry = "run_agent" THEN {FootinKeys, {}}
               ELSE {ModalKeys, {"MODEL_API_KEY"}, {}}
    /\ hashSalt \in IF entry = "run_agent" THEN {1} ELSE HashSalts
    \* run_agent_endpoint answers HTTP 500 before building the graph without a model key
    /\ pc = IF entry = "run_agent_endpoint" /\ env \cap GeminiKeys = {} THEN "failed" ELSE "agent"
    /\ input = NoValue
    /\ returned = NoValue
    /\ LoopInit
    /\ BatchInit

(* call_model + should_continue: the planner asks for tool calls ... *)
CallModelTools ==
    /\ pc = "agent"
    /\ steps < StepCap
    /\ \E c \in ToolCallsOf(entry) : toolCalls' = <<c>>
    /\ messages' = Append(messages, AIMsg(toolCalls', FALSE))
    /\ steps' = steps + 1
    /\ pc' = "tools"
    /\ UNCHANGED <<entry, env, hashSalt, input, returned, batchVars, toolMsgs, jobs, contacts, enrichment, drafts>>

(* ... or answers without any tool call: END *)
CallModelEnd ==
    /\ pc = "agent"
    /\ toolCalls' = <<>>
    /\ \E text \in BOOLEAN : messages' = Append(messages, AIMsg(<<>>, text))
    /\ pc' = "end"
    /\ UNCHANGED <<entry, env, hashSalt, input, returned, batchVars, steps, toolMsgs, jobs, contacts, enrichment, drafts>>

(* llm.invoke raises: the exception leaves ainvoke *)
CallModelRaises ==
    /\ pc = "agent"
    /\ pc' = "failed"
    /\ UNCHANGED <<entry, env, hashSalt, input, returned, batchVars, loopVars>>

(* A tools node that writes job results into the state as they arrive. *)
Tools_Streaming ==
    /\ pc = "tools"
    /\ \E out \in [1..Len(toolCalls) -> UNION {ToolResults(toolCalls[i], env, hashSalt) : i \in 1..Len(toolCalls)}] :
          /\ \A i \in 1..Len(toolCalls) : out[i] \in ToolResults(toolCalls[i], env, hashSalt)
          /\ toolMsgs' = [i \in 1..Len(toolCalls) |-> [name |-> toolCalls[i].name, content |-> out[i]]]
    /\ jobs' = update_state_from_tools(RunState, toolMsgs').jobs
    /\ messages' = messages \o [i \in 1..Len(toolCalls) |-> ToolMsg(toolCalls[i].name)]
    /\ pc' = "update_state"
    /\ UNCHANGED <<entry, env, hashSalt, input, returned, batchVars, steps, toolCalls, contacts, enrichment, drafts>>

(* A tools node wired straight back to the agent, with no merge between. *)
Tools_BackToAgent ==
    /\ pc = "tools"
    /\ \E out \in [1..Len(toolCalls) -> UNION {ToolResults(toolCalls[i], env, hashSalt) : i \in 1..Len(toolCalls)}] :
          /\ \A i \in 1..Len(toolCalls) : out[i] \in ToolResults(toolCalls[i], env, hashSalt)
          /\ toolMsgs' = [i \in 1..Len(toolCalls) |-> [name |-> toolCalls[i].name, content |-> out[i]]]
    /\ messages' = messages \o [i \in 1..Len(toolCalls) |-> ToolMsg(toolCalls[i].name)]
    /\ pc' = "agent"
    /\ UNCHANGED <<entry, env, hashSalt, input, returned, batchVars, steps, toolCalls, jobs, contacts, enrichment, drafts>>

(* ToolNode: one ToolMessage per requested call, in order *)
Tools ==
    /\ pc = "tools"
    /\ \E out \in [1..Len(toolCalls) -> UNION {ToolResults(toolCalls[i], env, hashSalt) : i \in 1..Len(toolCalls)}] :
          /\ \A i \in 1..Len(toolCalls) : out[i] \in ToolResults(toolCalls[i], env, hashSalt)
          /\ toolMsgs' = [i \in 1..Len(toolCalls) |-> [name |-> toolCalls[i].name, content |-> out[i]]]
    /\ messages' = messages \o [i \in 1..Len(toolCalls) |-> ToolMsg(toolCalls[i].name)]
    /\ pc' = "update_state"
    /\ UNCHANGED <<entry, env, hashSalt, input, returned, batchVars, steps, toolCalls, jobs, contacts, enrichment, drafts>>

(* the update_state node *)
UpdateState ==
    /\ pc = "update_state"
    /\ LET new == IF entry = "run_agent" THEN update_state_from_tools(RunState, toolMsgs)
                  ELSE update_state(RunState, toolMsgs)
       IN  /\ jobs' = new.jobs
           /\ contacts' = new.contacts
           /\ enrichment' = new.enrichment
           /\ drafts' = new.drafts
    /\ pc' = "agent"
    /\ UNCHANGED <<entry, env, hashSalt, input, returned, batchVars, steps, toolCalls, toolMsgs, messages>>

(* The reasoning list: for every AIMessage a thought when it has text, then *)
(* one action per tool call. (The args of an action are not kept.)         *)
Thought == D([type |-> S("thought")])
Action(name) == D([type |-> S("action"), tool |-> S(name)])
Reasoning(msgs) ==
    Concat([i \in 1..Len(msgs) |->
              IF msgs[i].type # "ai" THEN <<>>
              ELSE (IF msgs[i].text THEN <<Thought>> ELSE <<>>)
                   \o [k \in 1..Len(msgs[i].names) |-> Action(msgs[i].names[k])]])

(* A result built from the initial state instead of the final one. *)
RunAgentResult_Initial ==
    IF entry = "run_agent"
    THEN D([jobs |-> L(<<>>), contacts |-> D(EmptyDict), enrichment |-> D(EmptyDict),
            drafts |-> L(<<>>), reasoning |-> L(Reasoning(messages))])
    ELSE D([jobs |-> L(<<>>), contacts |-> D(EmptyDict), drafts |-> L(<<>>),
            reasoning |-> L(Reasoning(messages))])

(* ainvoke returned: the dict run_agent returns (run_agent_endpoint leaves   *)
(* enrichment out).                                                        *)
RunAgentResult ==
    IF entry = "run_agent"
    THEN D([jobs |-> L(jobs), contacts |-> D(contacts), enrichment |-> D(enrichment),
            drafts |-> L(drafts), reasoning |-> L(Reasoning(messages))])
    ELSE D([jobs |-> L(jobs), contacts |-> D(contacts), drafts |-> L(drafts),
            reasoning |-> L(Reasoning(messages))])

RunAgentReturns ==
    /\ pc = "end"
    /\ returned' = RunAgentResult
    /\ pc' = "returned"
    /\ UNCHANGED <<entry, env, hashSalt, input, loopVars, batchVars>>

-----------------------------------------------------------------------------
(* CareersPageScraper.search_multiple, task by task *)

BatchSize == 3
BatchInputs ==
    { [companies |-> <<"Acme", "Globex", "Initech">>, roles |-> <<"r1">>, max_results_per_company |-> 5],
      [companies |-> <<"Acme", "Globex">>, roles |-> <<"r1", "r2">>, max_results_per_company |-> 5] }

InitBatch ==
    /\ entry = "search_multiple"
    /\ env = ModalKeys
    /\ hashSalt \in HashSalts
    /\ pc = "search_multiple"
    /\ input \in BatchInputs
    /\ returned = NoValue
    /\ LoopInit
    /\ BatchInit

(* The same with no truncation of companies and roles. *)
CreateTasks_NoCap ==
    /\ pc = "search_multiple"
    /\ tasks' = Pairs(input.companies, input.roles)
    /\ taskState' = [i \in 1..Len(tasks') |-> "created"]
    /\ results' = [i \in 1..Len(tasks') |-> NoValue]
    /\ opened' = [i \in 1..Len(tasks') |-> 0]
    /\ ended' = [i \in 1..Len(tasks') |-> 0]
    /\ batchStart' = 0
    /\ pc' = "gather"
    /\ UNCHANGED <<entry, env, hashSalt, input, returned, loopVars, all_jobs, printed>>

(* lines 404-416: truncate the inputs and create one coroutine per pair *)
CreateTasks ==
    /\ pc = "search_multiple"
    /\ tasks' = Pairs(Take(input.companies, 5), Take(input.roles, 3))
    /\ taskState' = [i \in 1..Len(tasks') |-> "created"]
    /\ results' = [i \in 1..Len(tasks') |-> NoValue]
    /\ opened' = [i \in 1..Len(tasks') |-> 0]
    /\ ended' = [i \in 1..Len(tasks') |-> 0]
    /\ batchStart' = 0
    /\ pc' = "gather"
    /\ UNCHANGED <<entry, env, hashSalt, input, returned, loopVars, all_jobs, printed>>

(* Every task not yet folded counts as part of the running batch. *)
InBatch_Any(i) == batchStart < i /\ i <= Len(tasks)

InBatch(i) == batchStart < i /\ i <= batchStart + BatchSize /\ i <= Len(tasks)

(* search_company_jobs up to `await client.sessions.start(...)` *)
SessionStart(i) ==
    /\ pc = "gather"
    /\ InBatch(i)
    /\ taskState[i] = "created"
    /\ \/ /\ taskState' = [taskState EXCEPT ![i] = "open"]
          /\ opened' = [opened EXCEPT ![i] = @ + 1]
          /\ UNCHANGED results
       \/ /\ taskState' = [taskState EXCEPT ![i] = "done"]
          /\ results' = [results EXCEPT ![i] =
                search_company_jobs(tasks[i].company, tasks[i].role, input.max_results_per_company,
                                    [kind |-> "start_raises", raw |-> <<>>], hashSalt)]
          /\ UNCHANGED opened
    /\ UNCHANGED <<entry, env, pc, hashSalt, input, returned, loopVars, tasks, batchStart, all_jobs, printed, ended>>

(* The same without the finally: session.end() only on the path that runs  *)
(* to the end of the try body.                                             *)
SessionEnd_NoFinally(i) ==
    /\ pc = "gather"
    /\ InBatch(i)
    /\ taskState[i] = "open"
    /\ \E o \in {x \in ScrapeOutcomes : x.kind # "start_raises"} :
          /\ results' = [results EXCEPT ![i] =
                search_company_jobs(tasks[i].company, tasks[i].role, input.max_results_per_company,
                                    o, hashSalt)]
          /\ ended' = IF o.kind \in {"scrape_raises", "no_careers_page"} THEN ended
                      ELSE [ended EXCEPT ![i] = @ + 1]
    /\ taskState' = [taskState EXCEPT ![i] = "done"]
    /\ UNCHANGED <<entry, env, pc, hashSalt, input, returned, loopVars, tasks, batchStart, all_jobs, printed, opened>>

(* the try body, then `await session.end()` in the finally *)
SessionEnd(i) ==
    /\ pc = "gather"
    /\ InBatch(i)
    /\ taskState[i] = "open"
    /\ \E o \in {x \in ScrapeOutcomes : x.kind # "start_raises"} :
          results' = [results EXCEPT ![i] =
                search_company_jobs(tasks[i].company, tasks[i].role, input.max_results_per_company,
                                    o, hashSalt)]
    /\ taskState' = [taskState EXCEPT ![i] = "done"]
    /\ ended' = [ended EXCEPT ![i] = @ + 1]
    /\ UNCHANGED <<entry, env, pc, hashSalt, input, returned, loopVars, tasks, batchStart, all_jobs, printed, opened>>

(* gather without return_exceptions: a task's exception leaves search_multiple *)
GatherReturns_FailFast ==
    /\ pc = "gather"
    /\ batchStart < Len(tasks)
    /\ \A i \in 1..Len(tasks) : InBatch(i) => taskState[i] = "done"
    /\ LET batch == {i \in 1..Len(tasks) : InBatch(i)}
       IN  IF \E i \in batch : results[i].exception
           THEN pc' = "failed" /\ UNCHANGED <<all_jobs, printed, batchStart>>
           ELSE /\ all_jobs' = all_jobs \o CollectLists(SeqOfIdx(results, batch, 1))
                /\ printed' = printed
                /\ batchStart' = batchStart + BatchSize
                /\ pc' = pc
    /\ UNCHANGED <<entry, env, hashSalt, input, returned, loopVars, tasks, taskState, results, opened, ended>>

(* gather returns; lines 425-429 fold the batch's results *)
GatherReturns ==
    /\ pc = "gather"
    /\ batchStart < Len(tasks)
    /\ \A i \in 1..Len(tasks) : InBatch(i) => taskState[i] = "done"
    /\ LET batch == {i \in 1..Len(tasks) : InBatch(i)}
       IN  /\ all_jobs' = all_jobs \o CollectLists(SeqOfIdx(results, batch, 1))
           /\ printed' = printed \cup {i \in batch : results[i].exception}
    /\ batchStart' = batchStart + BatchSize
    /\ UNCHANGED <<entry, env, pc, hashSalt, input, returned, loopVars, tasks, taskState, results, opened, ended>>

(* lines 431-440: the loop is over; dedupe by url and return the list *)
ReturnUnique ==
    /\ pc = "gather"
    /\ batchStart >= Len(tasks)
    /\ returned' = L(UniqueByUrl(all_jobs))
    /\ pc' = "returned"
    /\ UNCHANGED <<entry, env, hashSalt, input, loopVars, batchVars>>

-----------------------------------------------------------------------------
(* hunter_search *)

People ==
    [ p1 |-> D([email |-> S("e1"), seniority |-> S("executive")]),
      p2 |-> D([email |-> S("e2"), seniority |-> S("executive")]),
      p3 |-> D([email |-> S("e3"), seniority |-> S("executive")]),
      p4 |-> D([email |-> S("e4"), seniority |-> S("senior")]),
      p5 |-> D([email |-> S("e5"), seniority |-> S("junior")]),
      p6 |-> D([email |-> S("e1"), seniority |-> S("senior")]),
      p7 |-> D([email |-> Null,    seniority |-> S("senior")]) ]

(* What one search_domain request can give: [] after a RequestException, or the people. *)
DomainReplies ==
    { <<>>,
      <<People.p1, People.p2, People.p3>>,
      <<People.p7, People.p6, People.p4>>,
      <<People.p5, People.p5>>,
      <<People.p4>> }

WithSeniority(people, s) ==
    SeqOfIdx(people, {i \in 1..Len(people) : people[i].v.seniority = S(s)}, 1)

(* The same without the fill step for fewer than 2 picks. *)
_pick_contacts_NoFill(people) ==
    IF people = <<>> THEN <<>>
    ELSE
      LET executives == WithSeniority(people, "executive")
          seniors    == WithSeniority(people, "senior")
          juniors    == WithSeniority(people, "junior")
          first      == Take(executives, 2)
                        \o (IF seniors # <<>> THEN <<seniors[1]>>
                            ELSE IF juniors # <<>> THEN <<juniors[1]>> ELSE <<>>)
      IN  Take(first, 3)

_pick_contacts(people) ==
    IF people = <<>> THEN <<>>
    ELSE
      LET executives == WithSeniority(people, "executive")
          seniors    == WithSeniority(people, "senior")
          juniors    == WithSeniority(people, "junior")
          first      == Take(executives, 2)
                        \o (IF seniors # <<>> THEN <<seniors[1]>>
                            ELSE IF juniors # <<>> THEN <<juniors[1]>> ELSE <<>>)
          remaining  == SeqOfIdx(people,
                           {i \in 1..Len(people) : \A k \in 1..Len(first) : first[k] # people[i]}, 1)
          selected   == IF Len(first) < 2 THEN first \o Take(remaining, 2 - Len(first)) ELSE first
      IN  Take(selected, 3)

PersonEmail(p) == p.v.email

(* reply[s] is the sequence of replies to the requests of seniority s, one per department *)
search_company_contacts(departments, reply) ==
    LET depts == IF departments = <<>> THEN <<"it", "management", "sales">> ELSE departments
        n     == Len(depts)
        base  == Concat([i \in 1..n |-> reply["executive"][i]])
                 \o Concat([i \in 1..n |-> reply["senior"][i]])
        all_contacts    == IF Len(base) < 5 THEN base \o Concat([i \in 1..n |-> reply["junior"][i]])
                           ELSE base
        named           == SeqOfIdx(all_contacts,
                              {i \in 1..Len(all_contacts) : Truthy(all_contacts[i].v.email)}, 1)
        unique_contacts == FirstByKey(named, "email")
    IN  _pick_contacts(unique_contacts)

HunterCompanyLists == { <<"Acme">>, <<"Acme", "Globex">> }
HunterDepartmentLists == { <<"it">> }

InitHunter ==
    /\ entry = "search_multiple_companies"
    /\ env = {"HUNTER_API_KEY"}
    /\ hashSalt = 1
    /\ pc = "search_multiple_companies"
    /\ input \in [companies : HunterCompanyLists, departments : HunterDepartmentLists]
    /\ returned = NoValue
    /\ LoopInit
    /\ BatchInit

(* hunter_search.search_multiple_companies *)
SearchMultipleCompanies ==
    /\ pc = "search_multiple_companies"
    /\ LET cs   == Take(input.companies, 3)
           keys == {cs[i] : i \in 1..Len(cs)}
           n    == Len(input.departments)
       IN  \E world \in [keys -> [{"executive", "senior", "junior"} -> [1..n -> DomainReplies]]] :
              returned' = D([c \in keys |-> L(search_company_contacts(input.departments, world[c]))])
    /\ pc' = "returned"
    /\ UNCHANGED <<entry, env, hashSalt, input, loopVars, batchVars>>

-----------------------------------------------------------------------------
(* browserbase_news.CompanyNewsSearcher (search_company_news, get_x_profile, *)
(* search_single_company, search_multiple_companies, search_companies_batch) *)
(* and CareersPageScraper.find_careers_page. Each of the three operations   *)
(* starts a session, runs a try body and ends the session in the finally.  *)

Articles ==
    [ n1 |-> D([title |-> S("h1"), source |-> S("o1"), date |-> S("2 hours ago")]),
      n2 |-> D([title |-> S("h2"), source |-> S("o2"), date |-> S("45 days ago")]),
      n3 |-> D([title |-> S("h3"), source |-> S("o3"), date |-> S("Jan 15")]) ]

(* hours / minutes / unparsed dates are kept, "N days ago" only for N <= 30 *)
_filter_recent_articles(articles) ==
    SeqOfIdx(articles, {i \in 1..Len(articles) : articles[i].v.date # S("45 days ago")}, 1)

Profile ==
    D([ handle |-> S("@h"), display_name |-> S("d"), bio |-> S("b"), tweets |-> L(<<>>), url |-> S("x_h") ])

(* What the try body of one operation can do. *)
ScopedOutcomes(op) ==
    {[kind |-> "raises", value |-> NoValue], [kind |-> "end_raises", value |-> NoValue]} \cup
    CASE op = "search_company_news" ->
           { [kind |-> "returns", value |-> L(_filter_recent_articles(<<>>))],
             [kind |-> "returns", value |-> L(_filter_recent_articles(<<Articles.n1, Articles.n2, Articles.n3>>))] }
      [] op = "get_x_profile" ->
           { [kind |-> "returns", value |-> D([error |-> S("Could not find Twitter handle")])],
             [kind |-> "returns", value |-> Profile] }
      [] op = "find_careers_page" ->
           { [kind |-> "returns", value |-> S("c_acme")],
             [kind |-> "returns", value |-> Null] }

(* What the awaiting gather (or caller) sees of the operation. *)
ScopedResult(o) ==
    IF o.kind = "returns" THEN [exception |-> FALSE, value |-> o.value]
    ELSE [exception |-> TRUE, value |-> NoValue]

(* A failure of either sub-search discards the result of both. *)
search_single_company_AllOrNothing(company, news, x) ==
    LET failed == news.exception \/ x.exception
    IN  D([ company   |-> S(company),
            news      |-> IF failed THEN L(<<>>) ELSE news.value,
            x_profile |-> IF failed THEN D(EmptyDict) ELSE x.value,
            errors    |-> D([ news      |-> IF news.exception THEN S("exception") ELSE Null,
                              x_profile |-> IF x.exception THEN S("exception") ELSE Null ]) ])

(* search_single_company: the two results of gather(news_task, x_task, return_exceptions=True) *)
search_single_company(company, news, x) ==
    D([ company   |-> S(company),
        news      |-> IF news.exception THEN L(<<>>) ELSE news.value,
        x_profile |-> IF x.exception THEN D(EmptyDict) ELSE x.value,
        errors    |-> D([ news      |-> IF news.exception THEN S("exception") ELSE Null,
                          x_profile |-> IF x.exception THEN S("exception") ELSE Null ]) ])

(* the sessions of `[self.search_single_company(c) for c in companies[:3]]` *)
NewsTasks(cs) ==
    [i \in 1..(2 * Len(cs)) |->
        [company |-> cs[(i + 1) \div 2],
         op |-> IF i % 2 = 1 THEN "search_company_news" ELSE "get_x_profile"]]

NewsInputs == { [companies |-> <<"Acme">>], [companies |-> <<"Acme", "Globex">>] }

InitNews ==
    /\ entry = "search_companies_batch"
    /\ env = BrowserbaseKeys
    /\ hashSalt = 1
    /\ pc = "search_companies_batch"
    /\ input \in NewsInputs
    /\ returned = NoValue
    /\ LoopInit
    /\ BatchInit

InitCareers ==
    /\ entry = "find_careers_page"
    /\ env = BrowserbaseKeys
    /\ hashSalt = 1
    /\ pc = "sessions"
    /\ input \in { [company |-> "Acme"], [company |-> "Globex"] }
    /\ returned = NoValue
    /\ LoopInit
    /\ tasks = <<[company |-> input.company, op |-> "find_careers_page"]>>
    /\ taskState = <<"created">>
    /\ results = <<NoValue>>
    /\ opened = <<0>>
    /\ ended = <<0>>
    /\ batchStart = 0
    /\ all_jobs = <<>>
    /\ printed = {}

(* search_multiple_companies line 363: one search_single_company per company *)
CreateNewsTasks ==
    /\ pc = "search_companies_batch"
    /\ tasks' = NewsTasks(Take(input.companies, 3))
    /\ taskState' = [i \in 1..Len(tasks') |-> "created"]
    /\ results' = [i \in 1..Len(tasks') |-> NoValue]
    /\ opened' = [i \in 1..Len(tasks') |-> 0]
    /\ ended' = [i \in 1..Len(tasks') |-> 0]
    /\ pc' = "sessions"
    /\ UNCHANGED <<entry, env, hashSalt, input, returned, loopVars, batchStart, all_jobs, printed>>

(* the operation up to `await client.sessions.start(...)` *)
ScopedSessionStart(i) ==
    /\ pc = "sessions"
    /\ i \in 1..Len(tasks)
    /\ taskState[i] = "created"
    /\ \/ /\ taskState' = [taskState EXCEPT ![i] = "open"]
          /\ opened' = [opened EXCEPT ![i] = @ + 1]
          /\ UNCHANGED results
       \/ /\ taskState' = [taskState EXCEPT ![i] = "done"]
          /\ results' = [results EXCEPT ![i] = [exception |-> TRUE, value |-> NoValue]]
          /\ UNCHANGED opened
    /\ UNCHANGED <<entry, env, pc, hashSalt, input, returned, loopVars, tasks, batchStart, all_jobs, printed, ended>>

(* the try body, then `await session.end()` in the finally *)
ScopedSessionEnd(i) ==
    /\ pc = "sessions"
    /\ i \in 1..Len(tasks)
    /\ taskState[i] = "open"
    /\ \E o \in ScopedOutcomes(tasks[i].op) : results' = [results EXCEPT ![i] = ScopedResult(o)]
    /\ taskState' = [taskState EXCEPT ![i] = "done"]
    /\ ended' = [ended EXCEPT ![i] = @ + 1]
    /\ UNCHANGED <<entry, env, pc, hashSalt, input, returned, loopVars, tasks, batchStart, all_jobs, printed, opened>>

(* both gathers are over: `return {r["company"]: r for r in results}` *)
NewsReturns ==
    /\ pc = "sessions"
    /\ entry = "search_companies_batch"
    /\ \A i \in 1..Len(tasks) : taskState[i] = "done"
    /\ LET n == Len(tasks) \div 2
       IN  returned' = D([c \in {tasks[2 * k].company : k \in 1..n} |->
                LET k == CHOOSE k \in 1..n : tasks[2 * k].company = c
                IN  search_single_company(c, results[2 * k - 1], results[2 * k])])
    /\ pc' = "returned"
    /\ UNCHANGED <<entry, env, hashSalt, input, loopVars, batchVars>>

(* find_careers_page returns the url (or None), or its exception leaves it *)
FindCareersPageReturns ==
    /\ pc = "sessions"
    /\ entry = "find_careers_page"
    /\ taskState[1] = "done"
    /\ IF results[1].exception
         THEN pc' = "failed" /\ UNCHANGED returned
         ELSE pc' = "returned" /\ returned' = results[1].value
    /\ UNCHANGED <<entry, env, hashSalt, input, loopVars, batchVars>>

-----------------------------------------------------------------------------

Init == InitAgent \/ InitBatch \/ InitHunter \/ InitNews \/ InitCareers

Next ==
    \/ CallModelTools \/ CallModelEnd \/ CallModelRaises \/ Tools \/ UpdateState
    \/ RunAgentReturns
    \/ CreateTasks
    \/ \E i \in 1..(5 * 3) : SessionStart(i) \/ SessionEnd(i)
    \/ GatherReturns \/ ReturnUnique
    \/ SearchMultipleCompanies
    \/ CreateNewsTasks
    \/ \E i \in 1..(3 * 2) : ScopedSessionStart(i) \/ ScopedSessionEnd(i)
    \/ NewsReturns \/ FindCareersPageReturns

Spec == Init /\ [][Next]_vars

-----------------------------------------------------------------------------
(* The loop under a planner that asks for a tool call at every decision,    *)
(* always one whose result the merger ignores.                             *)

NoopStepCap == 21

NoopCalls(app) ==
    {c \in ToolCallsOf(app) : c.name \in {"discover_jobs", "discover_jobs_tool"}}

InitNoop ==
    /\ entry \in {"run_agent", "run_agent_endpoint"}
    /\ env = IF entry = "run_agent" THEN {} ELSE {"MODEL_API_KEY"}
    /\ hashSalt = 1
    /\ pc = "agent"
    /\ input = NoValue
    /\ returned = NoValue
    /\ LoopInit
    /\ BatchInit

CallModelNoop ==
    /\ pc = "agent"
    /\ steps < NoopStepCap
    /\ \E c \in NoopCalls(entry) : toolCalls' = <<c>>
    /\ messages' = Append(messages, AIMsg(toolCalls', FALSE))
    /\ steps' = steps + 1
    /\ pc' = "tools"
    /\ UNCHANGED <<entry, env, hashSalt, input, returned, batchVars, toolMsgs, jobs, contacts, enrichment, drafts>>

NextNoop == CallModelNoop \/ Tools \/ UpdateState

SpecNoop == InitNoop /\ [][NextNoop]_vars

-----------------------------------------------------------------------------
(* The dispatching operations called directly with lists longer than their *)
(* caps: search_multiple up to the creation of its tasks, and the tools    *)
(* discover_jobs, find_contacts and enrich_company.                        *)

LongCompanies == <<"Acme", "Globex", "Initech", "Umbrella", "Hooli", "Stark">>
LongRoles == <<"r1", "r2", "r3", "r4">>
CapInputs ==
    { [companies |-> Take(LongCompanies, n), roles |-> Take(LongRoles, k), max_results_per_company |-> 5]
        : n \in 1..Len(LongCompanies), k \in 1..Len(LongRoles) }

InitCaps ==
    /\ entry \in {"search_multiple", "discover_jobs", "find_contacts", "enrich_company"}
    /\ env \in IF entry = "enrich_company" THEN {FootinKeys, {}} ELSE {FootinKeys \cup ModalKeys}
    /\ hashSalt = 1
    /\ pc = entry
    /\ input \in CapInputs
    /\ returned = NoValue
    /\ LoopInit
    /\ BatchInit

(* discover_jobs invoked as a tool; every Apify call gets the same kind of reply *)
CallDiscoverJobs ==
    /\ pc = "discover_jobs"
    /\ tasks' = ApifyQueries(input.companies, input.roles)
    /\ \E r \in ApifyReplies :
          returned' = discover_jobs(input.companies, input.roles, 10, env, hashSalt,
                                    [i \in 1..Len(tasks') |-> r])
    /\ pc' = "returned"
    /\ UNCHANGED <<entry, env, hashSalt, input, loopVars, taskState, results, batchStart, all_jobs, printed, opened, ended>>

CallFindContacts ==
    /\ pc = "find_contacts"
    /\ \E r \in HunterReplies :
          returned' = find_contacts(input.companies, <<>>, env,
                         [c \in {input.companies[i] : i \in 1..Len(input.companies)} |->
                             [q \in 1..(Len(Seniorities) * Len(DefaultDepartments)) |-> r]])
    /\ pc' = "returned"
    /\ UNCHANGED <<entry, env, hashSalt, input, loopVars, batchVars>>

CallEnrichCompany ==
    /\ pc = "enrich_company"
    /\ returned' = enrich_company(input.companies, env)
    /\ pc' = "returned"
    /\ UNCHANGED <<entry, env, hashSalt, input, loopVars, batchVars>>

NextCaps == CreateTasks \/ CallDiscoverJobs \/ CallFindContacts \/ CallEnrichCompany

SpecCaps == InitCaps /\ [][NextCaps]_vars

-----------------------------------------------------------------------------
(* update_state_from_tools applied to one tool message, over enrichment    *)
(* states and payloads that map a company to a record with some of the     *)
(* fields news, x_profile, note.                                           *)

EnrichmentFields == {"news", "x_profile", "note"}
EnrichmentRecords(mark) ==
    { D([f \in F |-> S(mark)]) : F \in (SUBSET EnrichmentFields) \ {{}} }
EnrichmentStates ==
    {EmptyDict} \cup { [c \in {company} |-> r] : company \in {"Acme", "Globex"}, r \in EnrichmentRecords("old") }
EnrichmentPayloads ==
    { D([c \in {company} |-> r]) : company \in {"Acme", "Globex"},
                                   r \in {x \in EnrichmentRecords("new") :
                                              DOMAIN x.v \cap {"news", "x_profile"} # {}} }

InitMerge ==
    /\ entry = "run_agent"
    /\ env = FootinKeys
    /\ hashSalt = 1
    /\ pc = "update_state"
    /\ input = NoValue
    /\ returned = NoValue
    /\ steps = 1
    /\ toolCalls = <<>>
    /\ \E p \in EnrichmentPayloads : toolMsgs = <<[name |-> "tool", content |-> p]>>
    /\ messages = <<HumanMsg, HumanMsg, AIMsg(<<[name |-> "tool"]>>, FALSE), ToolMsg("tool")>>
    /\ jobs = <<>>
    /\ contacts = EmptyDict
    /\ enrichment \in EnrichmentStates
    /\ drafts = <<>>
    /\ BatchInit

NextMerge == UpdateState

SpecMerge == InitMerge /\ [][NextMerge]_vars

-----------------------------------------------------------------------------
(* C1: after any sequence of merges, RunState.jobs holds no two jobs with  *)
(* the same id.                                                            *)
C1_JobIdsUnique ==
    \A i, j \in 1..Len(jobs) : i # j => JobId(jobs[i]) # JobId(jobs[j])


(* C2: when search_multiple returns for three targets of which the second  *)
(* failed and the others succeeded, the returned successes are the first's *)
(* and third's jobs (after the url pass) and the returned failure list     *)
(* names exactly the second target.                                        *)
ReturnedJobs == IF returned.t = "list" THEN returned.v ELSE returned.v.jobs
ReturnedFailures == IF returned.t = "list" THEN <<>> ELSE returned.v.failures
C2_BatchReturnsFailureList ==
    ( /\ entry = "search_multiple" /\ pc = "returned" /\ Len(tasks) = 3
      /\ results[2].exception /\ ~results[1].exception /\ ~results[3].exception )
    => /\ ReturnedJobs = UniqueByUrl(results[1].value \o results[3].value)
       /\ ReturnedFailures = <<tasks[2]>>


(* C3: a run whose planner never stops asking for tools performs at most   *)
(* 20 steps.                                                               *)
C3_AtMostTwentySteps == steps <= 20


(* Vocabulary of the claims about one merge step *)
Companies == {"Acme", "Globex", "Initech"}
LastMsg == toolMsgs[Len(toolMsgs)]
LastContent == LastMsg.content
Merging == pc = "update_state"
Merged == IF entry = "run_agent" THEN update_state_from_tools(RunState, toolMsgs)
          ELSE update_state(RunState, toolMsgs)
PrefixOf(a, b) == Len(a) <= Len(b) /\ SubSeq(b, 1, Len(a)) = a

(* C4: no step removes or shortens anything: jobs and drafts stay prefixes *)
(* of their later values, every stored contact stays under its key and     *)
(* every stored enrichment field stays under its key.                      *)
KeptIn(old, new) ==
    \A k \in DOMAIN old :
        /\ k \in DOMAIN new
        /\ old[k].t = "list" =>
              /\ new[k].t = "list"
              /\ \A i \in 1..Len(old[k].v) : \E j \in 1..Len(new[k].v) : new[k].v[j] = old[k].v[i]
        /\ old[k].t = "dict" =>
              /\ new[k].t = "dict"
              /\ DOMAIN old[k].v \subseteq DOMAIN new[k].v
C4_CollectionsOnlyGrow ==
    [][ /\ PrefixOf(jobs, jobs')
        /\ PrefixOf(drafts, drafts')
        /\ KeptIn(contacts, contacts')
        /\ KeptIn(enrichment, enrichment') ]_vars

(* C5: every list a contact search returns for a company, and every list   *)
(* RunState.contacts holds for a company, has at most 3 contacts and no    *)
(* two with the same email.                                                *)
ContactListOk(l) ==
    /\ l.t = "list"
    /\ Len(l.v) <= 3
    /\ \A i, j \in 1..Len(l.v) : i # j => ContactEmail(l.v[i]) # ContactEmail(l.v[j])
C5_ContactListsBounded ==
    /\ \A i \in 1..Len(toolMsgs) :
          (toolMsgs[i].name \in {"find_contacts", "find_contacts_tool"} /\ toolMsgs[i].content.t = "dict")
          => \A k \in (DOMAIN toolMsgs[i].content.v) \cap Companies : ContactListOk(toolMsgs[i].content.v[k])
    /\ (entry = "search_multiple_companies" /\ pc = "returned")
          => \A k \in DOMAIN returned.v : ContactListOk(returned.v[k])
    /\ \A k \in (DOMAIN contacts) \cap Companies : ContactListOk(contacts[k])
(* a company's stored list is full after a search that found a fourth email *)
C5_Witness ==
    /\ pc = "agent"
    /\ \E k \in (DOMAIN contacts) \cap Companies :
          /\ Len(contacts[k].v) = 3
          /\ ContactEmail(contacts[k].v[1]) = S("e1")
          /\ ContactEmail(contacts[k].v[3]) = S("e3")

(* C6: merging a contact search's result for a company that already has    *)
(* contacts keeps the stored ones, adds the new ones after them, first     *)
(* occurrence per email, at most 3.                                        *)
C6_ContactsMergedIntoExisting ==
    [][ ( /\ Merging
          /\ LastMsg.name \in {"find_contacts", "find_contacts_tool"}
          /\ LastContent.t = "dict"
          /\ pc' = "agent" )
        => \A k \in (DOMAIN LastContent.v) \cap (DOMAIN contacts) \cap Companies :
              contacts'[k] = L(Take(FirstByKey(contacts[k].v \o LastContent.v[k].v, "email"), 3)) ]_vars

(* C7: a mapping with subject and body, none of whose list entries holds   *)
(* elements with an email field, is appended to drafts once and changes    *)
(* nothing else.                                                           *)
DraftShaped(c) ==
    /\ c.t = "dict"
    /\ {"subject", "body"} \subseteq DOMAIN c.v
    /\ ~ \E k \in DOMAIN c.v :
            /\ c.v[k].t = "list"
            /\ \E i \in 1..Len(c.v[k].v) : c.v[k].v[i].t = "dict" /\ "email" \in DOMAIN c.v[k].v[i].v
C7_DraftGoesToDrafts ==
    [][ (Merging /\ DraftShaped(LastContent) /\ pc' = "agent")
        => /\ drafts' = drafts \o <<LastContent>>
           /\ UNCHANGED <<jobs, contacts, enrichment>> ]_vars

(* C8: every merge of a payload with subject and body makes drafts one     *)
(* entry longer.                                                           *)
C8_DraftMergeAddsOne ==
    [][ ( /\ Merging
          /\ LastContent.t = "dict"
          /\ "subject" \in DOMAIN LastContent.v /\ "body" \in DOMAIN LastContent.v
          /\ pc' = "agent" )
        => Len(drafts') = Len(drafts) + 1 ]_vars

(* The credential a tool reads is not set. *)
CredentialAbsent(name, e) ==
    CASE name = "discover_jobs"       -> "APIFY_API_TOKEN" \notin e
      [] name = "find_contacts"       -> "HUNTER_API_KEY" \notin e
      [] name = "find_contacts_tool"  -> "HUNTER_API_KEY" \notin e
      [] name = "enrich_company"      -> "BROWSERBASE_API_KEY" \notin e
      [] name = "draft_email"         -> "OPENAI_API_KEY" \notin e
      [] name = "discover_jobs_tool"  -> ~(BrowserbaseKeys \subseteq e)
      [] name = "draft_email_tool"    -> e \cap GeminiKeys = {}

(* An invocation that ended in failure: no credential, an error value, an  *)
(* exception turned into error text, or nothing found.                     *)
EndedInFailure(msg) ==
    \/ CredentialAbsent(msg.name, env)
    \/ msg.content.t = "notjson"
    \/ msg.content = L(<<>>)
    \/ /\ msg.content.t = "dict"
       /\ \/ "error" \in DOMAIN msg.content.v
          \/ \A k \in DOMAIN msg.content.v : msg.content.v[k] = L(<<>>)

(* C9: the result of a failed invocation is merged as a no-op and the loop *)
(* asks the planner again.                                                 *)
C9_FailureIsNoOp ==
    [][ (Merging /\ EndedInFailure(LastMsg) /\ pc' # pc)
        => /\ UNCHANGED <<jobs, contacts, enrichment, drafts>>
           /\ pc' = "agent" ]_vars

(* C10: what a capability returns while its credential is absent           *)
(* contributes nothing to RunState when merged.                            *)
C10_MissingCredentialContributesNothing ==
    (Merging /\ CredentialAbsent(LastMsg.name, env)) => Merged = RunState
-----------------------------------------------------------------------------
AgentRun == entry \in {"run_agent", "run_agent_endpoint"}

(* C11: when the planner call fails after at least one merge, the caller   *)
(* still receives the RunState accumulated so far.                         *)
C11_FailedRunReturnsState ==
    (AgentRun /\ pc = "failed" /\ steps >= 1) => returned = RunAgentResult

(* C12: a run whose planner asked once, for job discovery, got a non-empty *)
(* jobs list back and then asked for nothing more ends with exactly those  *)
(* jobs and with no contacts and no drafts.                                *)
C12_DiscoverThenDone ==
    ( /\ AgentRun
      /\ pc \in {"end", "returned"}
      /\ steps = 1
      /\ Len(toolMsgs) = 1
      /\ toolMsgs[1].name \in {"discover_jobs", "discover_jobs_tool"}
      /\ toolMsgs[1].content.t = "list"
      /\ toolMsgs[1].content.v # <<>> )
    => /\ jobs = toolMsgs[1].content.v
       /\ contacts = EmptyDict
       /\ drafts = <<>>
C12_Witness ==
    /\ entry = "run_agent"
    /\ pc = "returned"
    /\ steps = 1
    /\ toolMsgs[1].name = "discover_jobs"
    /\ toolMsgs[1].content.t = "list"
    /\ Len(jobs) = 2
    /\ returned.v.jobs = L(jobs)
(* C13: the list one job-discovery invocation returns holds no two jobs    *)
(* with the same id.                                                       *)
NoTwoWithSameId(q) == \A i, j \in 1..Len(q) : i # j => q[i].v.id # q[j].v.id
C13_DiscoveryIdsUnique ==
    /\ (entry = "search_multiple" /\ pc = "returned") => NoTwoWithSameId(returned.v)
    /\ \A i \in 1..Len(toolMsgs) :
          (toolMsgs[i].name \in {"discover_jobs", "discover_jobs_tool"} /\ toolMsgs[i].content.t = "list")
          => NoTwoWithSameId(toolMsgs[i].content.v)
(* Sessions that sessions.start() returned and session.end() was not yet called on *)
OpenSessions == {i \in 1..Len(tasks) : opened[i] > ended[i]}

(* C14: while search_multiple runs, at most 3 sessions are open, and no    *)
(* task of a later batch of 3 has started while a task of an earlier batch *)
(* is not finished.                                                        *)
C14_JobSessionsAtMostThree ==
    entry = "search_multiple" =>
       /\ Cardinality(OpenSessions) <= 3
       /\ \A i, j \in 1..Len(tasks) :
             (taskState[j] # "created" /\ (i - 1) \div 3 < (j - 1) \div 3) => taskState[i] = "done"
(* the fourth target's session is open: the second batch is running *)
C14_Witness ==
    /\ entry = "search_multiple"
    /\ Len(tasks) = 4
    /\ 4 \in OpenSessions

(* C15: while the enrichment batch runs, at most 3 sessions are open,      *)
(* news and X-profile sessions counted together.                           *)
C15_NewsSessionsAtMostThree ==
    entry = "search_companies_batch" => Cardinality(OpenSessions) <= 3

(* C16: every session an operation started has had session.end() called    *)
(* exactly once by the time the operation is over, never more, and none is *)
(* open once the call that started it has returned or raised.              *)
C16_SessionsEndedOnce ==
    /\ \A i \in 1..Len(tasks) :
          /\ ended[i] <= opened[i]
          /\ opened[i] <= 1
          /\ taskState[i] = "done" => ended[i] = opened[i]
    /\ pc \in {"returned", "failed"} => OpenSessions = {}
(* a batch returned after one operation left through the except / early    *)
(* return and another raised after its session had been opened             *)
C16_Witness ==
    /\ entry = "search_multiple"
    /\ pc = "returned"
    /\ \E i, j \in 1..Len(tasks) :
          /\ opened[i] = 1 /\ ended[i] = 1 /\ results[i] = [exception |-> FALSE, value |-> <<>>]
          /\ opened[j] = 1 /\ ended[j] = 1 /\ results[j].exception

(* C17: a batch call never ends in an exception; when it returns every     *)
(* target's operation has run to its end, whatever happened to the others, *)
(* and what each successful one found is in the returned value.            *)
BatchRun == entry \in {"search_multiple", "search_companies_batch"}
OwnResultReturned(i) ==
    IF entry = "search_multiple"
    THEN \A n \in 1..Len(results[i].value) :
            \E k \in 1..Len(returned.v) : returned.v[k].v.url = results[i].value[n].v.url
    ELSE returned.v[tasks[i].company].v[IF tasks[i].op = "search_company_news" THEN "news" ELSE "x_profile"]
            = results[i].value
C17_FailureDoesNotAbortBatch ==
    BatchRun =>
       /\ pc # "failed"
       /\ pc = "returned" =>
             \A i \in 1..Len(tasks) :
                /\ taskState[i] = "done"
                /\ ~results[i].exception => OwnResultReturned(i)
(* the first target failed and a target of the second batch still ran and  *)
(* its jobs were returned                                                  *)
C17_Witness ==
    /\ entry = "search_multiple"
    /\ pc = "returned"
    /\ Len(tasks) = 4
    /\ results[1].exception
    /\ ~results[4].exception
    /\ results[4].value # <<>>
    /\ Len(returned.v) > 0
(* C18: nothing beyond the caps is dispatched: search_multiple creates at  *)
(* most 15 tasks over the first 5 companies and first 3 roles,             *)
(* discover_jobs makes at most 6 calls over the first 3 companies and      *)
(* first 2 roles, find_contacts and enrich_company answer for at most the  *)
(* first 3 companies.                                                      *)
FirstOf(q, n) == {q[i] : i \in 1..(IF Len(q) < n THEN Len(q) ELSE n)}
TargetsWithin(nc, nr, most) ==
    /\ Len(tasks) <= most
    /\ \A i \in 1..Len(tasks) :
          /\ tasks[i].company \in FirstOf(input.companies, nc)
          /\ tasks[i].role \in FirstOf(input.roles, nr)
C18_DispatchWithinCaps ==
    /\ (entry = "search_multiple" /\ pc = "gather") => TargetsWithin(5, 3, 15)
    /\ (entry = "discover_jobs" /\ pc = "returned") => TargetsWithin(3, 2, 6)
    /\ (entry \in {"find_contacts", "enrich_company"} /\ pc = "returned") =>
          /\ DOMAIN returned.v \subseteq FirstOf(input.companies, 3)
          /\ Cardinality(DOMAIN returned.v) <= 3
(* six companies and four roles were given and fifteen tasks were created *)
C18_Witness ==
    /\ entry = "search_multiple"
    /\ pc = "gather"
    /\ Len(input.companies) = 6
    /\ Len(input.roles) = 4
    /\ Len(tasks) = 15
(* C19: search_multiple returns the successful tasks' lists, joined in    *)
(* task order, with every job dropped whose url an earlier job already     *)
(* has; so no two returned jobs share a url.                               *)
SuccessfulInOrder ==
    Concat([i \in 1..Len(results) |-> IF results[i].exception THEN <<>> ELSE results[i].value])
FirstSeenPerUrl(q) ==
    SeqOfIdx(q, {i \in 1..Len(q) : \A j \in 1..(i - 1) : q[j].v.url # q[i].v.url}, 1)
C19_ConcatThenDedupByUrl ==
    (entry = "search_multiple" /\ pc = "returned") =>
       /\ returned.v = FirstSeenPerUrl(SuccessfulInOrder)
       /\ \A i, j \in 1..Len(returned.v) : i # j => returned.v[i].v.url # returned.v[j].v.url
(* a later task's job was dropped for its url and two jobs were kept *)
C19_Witness ==
    /\ entry = "search_multiple"
    /\ pc = "returned"
    /\ Len(returned.v) >= 2
    /\ Len(returned.v) < Len(SuccessfulInOrder)
    /\ \E i \in 1..Len(results) : results[i].exception
-----------------------------------------------------------------------------
ToolMessages == {i \in 1..Len(messages) : messages[i].type = "tool"}
ActionEntries(r) == {i \in 1..Len(r) : r[i].v.type = S("action")}

(* C21: in the trace a finished run returns, every tool invocation of the   *)
(* run is an action entry, and every action entry is immediately followed  *)
(* by an observation entry.                                                *)
C21_ActionThenObservation ==
    (AgentRun /\ pc = "returned") =>
        LET r == returned.v.reasoning.v
        IN  /\ Cardinality(ActionEntries(r)) = Cardinality(ToolMessages)
            /\ \A i \in ActionEntries(r) :
                  i < Len(r) /\ r[i + 1].v.type = S("observation")
-----------------------------------------------------------------------------
(* The scraped postings a returned job can have been formatted from. *)
PostingsOf(j) ==
    {x \in DOMAIN RawJobs :
        \E s \in HashSalts : j = FormatJob(RawJobs[x], j.v.company.v, j.v.role.v, s)}

(* C22: the id of a job search_multiple returns depends on the posting's   *)
(* url (or title) alone: any process, whatever its hash salt, gives the    *)
(* same posting the same id.                                               *)
C22_JobIdSameInEveryProcess ==
    (entry = "search_multiple" /\ pc = "returned") =>
        \A i \in 1..Len(ReturnedJobs) :
            \A x \in PostingsOf(ReturnedJobs[i]) : \A s \in HashSalts :
                JobId(ReturnedJobs[i])
                  = JobId(FormatJob(RawJobs[x], ReturnedJobs[i].v.company.v, ReturnedJobs[i].v.role.v, s))
-----------------------------------------------------------------------------
(* Runs whose planner asks for two tools in one response: ToolNode runs     *)
(* both and appends their ToolMessages in the order of the calls.          *)

MultiStepCap == 1
MultiCalls(app) ==
    LET one == {c \in ToolCallsOf(app) :
                  "companies" \in DOMAIN c /\ c.companies = <<"Acme">>
                  /\ c.name \in {"discover_jobs", "find_contacts", "discover_jobs_tool", "find_contacts_tool"}}
    IN  {p \in {<<c1, c2>> : c1 \in one, c2 \in one} : p[1] # p[2]}

InitMulti ==
    /\ entry \in {"run_agent", "run_agent_endpoint"}
    /\ env = IF entry = "run_agent" THEN FootinKeys ELSE ModalKeys
    /\ hashSalt = 1
    /\ pc = "agent"
    /\ input = NoValue
    /\ returned = NoValue
    /\ LoopInit
    /\ BatchInit

CallModelMulti ==
    /\ pc = "agent"
    /\ steps < MultiStepCap
    /\ toolCalls' \in MultiCalls(entry)
    /\ messages' = Append(messages, AIMsg(toolCalls', FALSE))
    /\ steps' = steps + 1
    /\ pc' = "tools"
    /\ UNCHANGED <<entry, env, hashSalt, input, returned, batchVars, toolMsgs, jobs, contacts, enrichment, drafts>>

NextMulti == CallModelMulti \/ Tools \/ UpdateState \/ CallModelEnd \/ RunAgentReturns

SpecMulti == InitMulti /\ [][NextMulti]_vars

MergedFrom(msgs) ==
    IF entry = "run_agent" THEN update_state_from_tools(RunState, msgs)
    ELSE update_state(RunState, msgs)
AllIn(a, b) == \A i \in 1..Len(a) : \E j \in 1..Len(b) : b[j] = a[i]

(* C23: when one planner response asked for several tools, the merge that   *)
(* follows folds in the result of every one of them: whatever merging one  *)
(* result alone would add is in the merged RunState.                       *)
C23_EveryResultOfADecisionMerged ==
    (AgentRun /\ Merging) =>
        \A i \in 1..Len(toolMsgs) :
            LET alone == MergedFrom(<<toolMsgs[i]>>)
            IN  /\ AllIn(alone.jobs, Merged.jobs)
                /\ KeptIn(alone.contacts, Merged.contacts)
                /\ KeptIn(alone.enrichment, Merged.enrichment)
                /\ AllIn(alone.drafts, Merged.drafts)
-----------------------------------------------------------------------------
(* The three states of the loop and the steps between them. *)
Deciding == pc = "agent"
Invoking == pc = "tools"
PlannerCalled == Len(messages') = Len(messages) + 1 /\ messages'[Len(messages')].type = "ai"
ToolsInvoked == Len(messages') > Len(messages) /\ messages'[Len(messages')].type = "tool"

(* C24: the loop goes Deciding -> Invoking -> Merging -> Deciding. The      *)
(* planner is called only in Deciding, never while tools are in flight;    *)
(* tools are invoked only in Invoking, which is entered only from a        *)
(* planner response that asks for tools, and the tools invoked are the     *)
(* ones that response named; after the tools complete comes the merge,     *)
(* and after the merge, and nothing else, the planner.                     *)
C24_DecideInvokeMergeCycle ==
    [][ AgentRun =>
          /\ PlannerCalled => Deciding
          /\ (Invoking' /\ ~Invoking) =>
                /\ Deciding /\ PlannerCalled
                /\ toolCalls' # <<>>
                /\ messages'[Len(messages')].names = [i \in 1..Len(toolCalls') |-> toolCalls'[i].name]
          /\ ToolsInvoked =>
                /\ Invoking /\ Merging'
                /\ [i \in 1..Len(toolMsgs') |-> toolMsgs'[i].name]
                      = [i \in 1..Len(toolCalls) |-> toolCalls[i].name]
          /\ (Invoking /\ ~Invoking') => (ToolsInvoked /\ Merging')
          /\ (Merging' /\ ~Merging) => Invoking
          /\ (Merging /\ ~Merging') => Deciding'
          /\ (Deciding' /\ ~Deciding) => Merging ]_vars

(* A second round of the cycle has begun. *)
C24_Witness == AgentRun /\ Invoking /\ steps = 2 /\ jobs # <<>>
-----------------------------------------------------------------------------
Done == pc \in {"end", "returned"}
NoToolCall == PlannerCalled /\ messages'[Len(messages')].names = <<>>

-----------------------------------------------------------------------------
(* search_multiple with sessions that may hang: an await on the session    *)
(* inside the try body (navigate, extract) that never completes. No wait   *)
(* in search_company_jobs or search_multiple carries a deadline, so a hung *)
(* task has no further step.                                               *)

SessionHangs(i) ==
    /\ pc = "gather"
    /\ InBatch(i)
    /\ taskState[i] = "open"
    /\ taskState' = [taskState EXCEPT ![i] = "hung"]
    /\ UNCHANGED <<entry, env, pc, hashSalt, input, returned, loopVars, tasks, results, batchStart,
                   all_jobs, printed, opened, ended>>

NextHang ==
    \/ CreateTasks
    \/ \E i \in 1..(5 * 3) : SessionStart(i) \/ SessionEnd(i) \/ SessionHangs(i)
    \/ GatherReturns
    \/ ReturnUnique

SpecHang == InitBatch /\ [][NextHang]_vars

(* C26: a session that hangs does not stop search_multiple: as long as the *)
(* call has not returned, some step of it can still be taken (the batch    *)
(* finishes, the next batch starts, the call returns).                     *)
C26_HungSessionDoesNotBlock ==
    (entry = "search_multiple" /\ pc # "returned") => ENABLED NextHang
-----------------------------------------------------------------------------
(* C27: jobs, contacts, enrichment and drafts change in the merge step and *)
(* in no other: not while the planner decides, not while tools or a batch  *)
(* of sessions are in flight; and what the merge writes is computed from   *)
(* the complete tool messages of the invocation that just returned.        *)
C27_OnlyMergeChangesRunState ==
    [][ /\ ~Merging => UNCHANGED <<jobs, contacts, enrichment, drafts>>
        /\ RunState' # RunState =>
              /\ Merging /\ Deciding'
              /\ RunState' = Merged
              /\ UNCHANGED toolMsgs ]_vars

(* Tools are in flight while RunState already holds jobs. *)
C27_Witness == AgentRun /\ Invoking /\ jobs # <<>> /\ toolCalls # <<>>
-----------------------------------------------------------------------------
(* apollo.py: ApolloContactSearcher._pick_contacts *)

MANAGER_LEVELS == {"manager", "director", "vp", "c_suite", "owner", "partner"}
IC_LEVELS == {"entry", "senior"}

(* `p.get("seniority") in levels` *)
SeniorityIn(p, levels) == p.v.seniority.t = "str" /\ p.v.seniority.v \in levels

apollo_pick_contacts(people) ==
    LET managers  == SeqOfIdx(people, {i \in 1..Len(people) : SeniorityIn(people[i], MANAGER_LEVELS)}, 1)
        ics       == SeqOfIdx(people, {i \in 1..Len(people) : SeniorityIn(people[i], IC_LEVELS)}, 1)
        first     == Take(managers, 2) \o (IF ics # <<>> THEN <<ics[1]>> ELSE <<>>)
        remaining == SeqOfIdx(people,
                        {i \in 1..Len(people) : \A k \in 1..Len(first) : first[k] # people[i]}, 1)
        selected  == IF Len(first) < 2 THEN first \o Take(remaining, 2 - Len(first)) ELSE first
    IN  Take(selected, 3)

(* _pick_contacts of either searcher called on a list of pairwise distinct *)
(* people: person i has email i and any seniority the provider reports, or *)
(* none.                                                                   *)
MaxPeople == 4
PersonEmails == <<"e1", "e2", "e3", "e4", "e5", "e6">>
SenioritiesOf(e) ==
    IF e = "hunter._pick_contacts"
    THEN {S("executive"), S("senior"), S("junior"), Null}
    ELSE {S("manager"), S("vp"), S("senior"), S("entry"), Null}
PickInputs(e) ==
    { [i \in 1..Len(f) |-> D([email |-> S(PersonEmails[i]), seniority |-> f[i]])]
        : f \in UNION {[1..n -> SenioritiesOf(e)] : n \in 0..MaxPeople} }

InitPick ==
    /\ entry \in {"hunter._pick_contacts", "apollo._pick_contacts"}
    /\ env = {}
    /\ hashSalt = 1
    /\ pc = "_pick_contacts"
    /\ input \in PickInputs(entry)
    /\ returned = NoValue
    /\ LoopInit
    /\ BatchInit

PickContacts ==
    /\ pc = "_pick_contacts"
    /\ returned' = L(IF entry = "hunter._pick_contacts" THEN _pick_contacts(input)
                     ELSE apollo_pick_contacts(input))
    /\ pc' = "returned"
    /\ UNCHANGED <<entry, env, hashSalt, input, loopVars, batchVars>>

NextPick == PickContacts

SpecPick == InitPick /\ [][NextPick]_vars

IsManager(p) ==
    IF entry = "hunter._pick_contacts" THEN p.v.seniority = S("executive")
    ELSE SeniorityIn(p, MANAGER_LEVELS)
IsIC(p) ==
    IF entry = "hunter._pick_contacts" THEN p.v.seniority \in {S("senior"), S("junior")}
    ELSE SeniorityIn(p, IC_LEVELS)
Min(a, b) == IF a <= b THEN a ELSE b

-----------------------------------------------------------------------------
NewsRun == entry = "search_companies_batch"
(* The tasks of company c: its news search and its X-profile search. *)
NewsTaskOf(c) == CHOOSE i \in 1..Len(tasks) : tasks[i].company = c /\ tasks[i].op = "search_company_news"
XTaskOf(c) == CHOOSE i \in 1..Len(tasks) : tasks[i].company = c /\ tasks[i].op = "get_x_profile"

(* C29: a sub-search that raises does not make search_single_company       *)
(* raise. In the entry returned for a company, news is [] when the news    *)
(* search raised and its result otherwise, x_profile is {} when the        *)
(* profile search raised and its result otherwise, each whatever the other *)
(* did; errors.news and errors.x_profile are non-null exactly for the      *)
(* sub-search that raised.                                                 *)
C29_SubSearchFailureContained ==
    /\ NewsRun => pc # "failed"
    /\ (NewsRun /\ pc = "returned") =>
          \A c \in DOMAIN returned.v :
              LET r == returned.v[c].v
                  n == results[NewsTaskOf(c)]
                  x == results[XTaskOf(c)]
              IN  /\ r.news = IF n.exception THEN L(<<>>) ELSE n.value
                  /\ r.x_profile = IF x.exception THEN D(EmptyDict) ELSE x.value
                  /\ (r.errors.v.news # Null) <=> n.exception
                  /\ (r.errors.v.x_profile # Null) <=> x.exception

(* The news search of a company raised and its profile search succeeded.   *)
C29_Witness ==
    /\ NewsRun /\ pc = "returned"
    /\ \E c \in DOMAIN returned.v :
          /\ results[NewsTaskOf(c)].exception
          /\ ~results[XTaskOf(c)].exception
          /\ returned.v[c].v.x_profile = Profile
          /\ returned.v[c].v.news = L(<<>>)
-----------------------------------------------------------------------------
Slots == {"jobs", "contacts", "enrichment", "drafts"}
(* Keys of a dict payload; no keys for any other payload. *)
PayloadKeys(content) == IF content.t = "dict" THEN DOMAIN content.v ELSE {}
OnlyAtKeys(old, new, keys) ==
    /\ DOMAIN new \subseteq DOMAIN old \cup keys
    /\ \A k \in DOMAIN old \ keys : k \in DOMAIN new /\ new[k] = old[k]
(* Payloads no rule of either merger can match. *)
MatchesNoRule(content) ==
    \/ content.t \notin {"list", "dict"}
    \/ content = L(<<>>)
    \/ content = D(EmptyDict)

(* The payload kinds by shape. *)
ContactsShaped(c) ==
    /\ c.t = "dict"
    /\ \E k \in DOMAIN c.v :
          /\ c.v[k].t = "list"
          /\ \E i \in 1..Len(c.v[k].v) : c.v[k].v[i].t = "dict" /\ "email" \in DOMAIN c.v[k].v[i].v
EnrichmentShaped(c) ==
    /\ c.t = "dict"
    /\ ~ContactsShaped(c)
    /\ ~DraftShaped(c)
    /\ \E k \in DOMAIN c.v : c.v[k].t = "dict" /\ {"news", "x_profile"} \cap DOMAIN c.v[k].v # {}

(* What every merge step keeps: at most one of the four collections        *)
(* changes, contacts and enrichment only under keys of the payload, and a  *)
(* payload that is not JSON or can match no rule changes nothing.          *)
OneSlotPerMerge ==
    /\ Cardinality({s \in Slots : RunState'[s] # RunState[s]}) <= 1
    /\ OnlyAtKeys(contacts, contacts', PayloadKeys(LastContent))
    /\ OnlyAtKeys(enrichment, enrichment', PayloadKeys(LastContent))
    /\ MatchesNoRule(LastContent) => RunState' = RunState

(* C30: a merge step changes at most one of jobs, contacts, enrichment and *)
(* drafts: a jobs payload leaves contacts, enrichment and drafts as they   *)
(* were, a contacts payload leaves jobs, enrichment and drafts and changes *)
(* contacts only under its own keys, an enrichment payload leaves jobs,    *)
(* contacts and drafts, a drafts payload leaves jobs, contacts and         *)
(* enrichment; a payload that is not JSON or matches no rule changes       *)
(* nothing; and in every case the loop goes on to the planner.             *)
C30_MergeTouchesOwnSlotOnly ==
    [][ (AgentRun /\ Merging /\ pc' # pc) =>
          /\ OneSlotPerMerge
          /\ LastContent.t = "list" => UNCHANGED <<contacts, enrichment, drafts>>
          /\ ContactsShaped(LastContent) => UNCHANGED <<jobs, enrichment, drafts>>
          /\ EnrichmentShaped(LastContent) => UNCHANGED <<jobs, contacts, drafts>>
          /\ DraftShaped(LastContent) => UNCHANGED <<jobs, contacts, enrichment>>
          /\ Deciding' ]_vars
====
